---- MODULE Spec2Model ----
(***************************************************************************)
(* NeighborSampler (torch_geometric/sampler/neighbor_sampler.py).          *)
(*                                                                         *)
(* The sampler object, its construction (__init__) and its sample() call   *)
(* are translated from the Python source.  The CSC conversion              *)
(* (sampler.utils.to_csc / to_hetero_csc) and the native sampling          *)
(* operators that sample() delegates to are not part of the source file;   *)
(* they are modelled from sections 4.1-4.5 of the design document.         *)
(*                                                                         *)
(* Conventions: node ids, edge positions and local indices are 0-based as  *)
(* in the program; tensors are TLA+ sequences, so tensor t at index i is   *)
(* t[i+1].  Python None is the empty tuple, a present optional value x is  *)
(* <<x>>.  A Python dict is the insertion-ordered sequence of its          *)
(* <<key, value>> items.                                                   *)
(***************************************************************************)
EXTENDS Integers, Sequences, FiniteSets, TLC

VARIABLES
    WITH_PYG_LIB,     \* module global _WITH_PYG_LIB (pyg_lib importable)
    HAS_TEMPORAL_OP,  \* torch_sparse exposes hetero_temporal_neighbor_sample
    data,             \* the `data` argument the sampler was constructed from
    constructed,      \* the sampler's fields right after __init__ returned
    self,             \* the sampler's fields
    pc,               \* "ready": no call in progress; "native": inside the operator
    index,            \* argument `index` of the current / last sample() call
    kwargs,           \* keyword arguments of the current / last sample() call
    op,               \* state of the native operator of the current / last call
    out               \* what the last sample() call returned or raised

vars == <<WITH_PYG_LIB, HAS_TEMPORAL_OP, data, constructed, self, pc, index,
          kwargs, op, out>>

-----------------------------------------------------------------------------
(* Bounds of the model *)

MaxHops == 2

MaxSeeds == 2

-----------------------------------------------------------------------------
(* Python values *)

None == <<>>

Some(x) == <<x>>

IsNone(o) == o = <<>>

Val(o) == o[1]

At(t, i) == t[i + 1]

Range(s) == {s[i] : i \in DOMAIN s}

Min(a, b) == IF a <= b THEN a ELSE b

IsInjective(s) == \A i, j \in DOMAIN s : s[i] = s[j] => i = j

RECURSIVE SortedSeq(_)
SortedSeq(S) ==
    IF S = {} THEN <<>>
    ELSE LET m == CHOOSE x \in S : \A y \in S : x <= y
         IN  <<m>> \o SortedSeq(S \ {m})

RECURSIVE Flatten(_)
Flatten(ss) == IF ss = <<>> THEN <<>> ELSE Head(ss) \o Flatten(Tail(ss))

(* dict[k] *)
DictGet(d, k) == d[CHOOSE i \in DOMAIN d : d[i][1] = k][2]

DictKeys(d) == [i \in DOMAIN d |-> d[i][1]]

DictHas(d, k) == \E i \in DOMAIN d : d[i][1] = k

(* d[k] = v: an existing key keeps its place, a new key is appended *)
DictSet(d, k, v) ==
    IF DictHas(d, k)
    THEN [i \in DOMAIN d |-> IF d[i][1] = k THEN <<k, v>> ELSE d[i]]
    ELSE Append(d, <<k, v>>)

-----------------------------------------------------------------------------
(* remap_keys and the edge-type <-> string conversion *)

RECURSIVE remap_keys(_, _)
remap_keys(original, mapping) ==
    IF original = <<>> THEN <<>>
    ELSE LET n == Len(original)
         IN  DictSet(remap_keys(SubSeq(original, 1, n - 1), mapping),
                     DictGet(mapping, original[n][1]), original[n][2])

(* '__'.join(key) *)
JoinKey(key) == key[1] \o "__" \o key[2] \o "__" \o key[3]

(* {key: '__'.join(key) for key in self.edge_types} *)
RECURSIVE ToRelType(_)
ToRelType(edge_types) ==
    IF edge_types = <<>> THEN <<>>
    ELSE LET n == Len(edge_types)
         IN  DictSet(ToRelType(SubSeq(edge_types, 1, n - 1)),
                     edge_types[n], JoinKey(edge_types[n]))

(* {'__'.join(key): key for key in self.edge_types} *)
RECURSIVE ToEdgeType(_)
ToEdgeType(edge_types) ==
    IF edge_types = <<>> THEN <<>>
    ELSE LET n == Len(edge_types)
         IN  DictSet(ToEdgeType(SubSeq(edge_types, 1, n - 1)),
                     JoinKey(edge_types[n]), edge_types[n])

-----------------------------------------------------------------------------
(* CSC conversion: sampler.utils.to_csc / to_hetero_csc (design, 4.1) *)

(* perm: CSC position -> position in the input edge list; a stable sort by
   destination unless the input is declared sorted *)
CscPerm(edge_index, num_nodes, is_sorted) ==
    IF is_sorted
    THEN [p \in 1..Len(edge_index) |-> p - 1]
    ELSE Flatten([d \in 1..num_nodes |->
             SortedSeq({j - 1 : j \in {i \in DOMAIN edge_index :
                                          edge_index[i][2] = d - 1}})])

to_csc(edge_index, num_nodes, is_sorted) ==
    LET perm == CscPerm(edge_index, num_nodes, is_sorted)
    IN  [colptr |-> [i \in 1..(num_nodes + 1) |->
                        Cardinality({j \in DOMAIN edge_index :
                                        edge_index[j][2] < i - 1})],
         row    |-> [p \in DOMAIN perm |-> edge_index[perm[p] + 1][1]],
         perm   |-> perm]

(* one CSC store per edge type, keyed by the edge type *)
to_hetero_csc(d) ==
    [i \in DOMAIN d.edge_types |->
        <<d.edge_types[i],
          to_csc(DictGet(d.edge_index, d.edge_types[i]),
                 DictGet(d.num_nodes, d.edge_types[i][3]), d.is_sorted)>>]

(* the destination of the edge stored at CSC position p *)
CscDst(colptr, p) ==
    CHOOSE n \in 0..(Len(colptr) - 2) : At(colptr, n) <= p /\ p < At(colptr, n + 1)

-----------------------------------------------------------------------------
(* The graphs the sampler is constructed from *)

Chain4 ==
    [cls |-> "Data", num_nodes |-> 4,
     edge_index |-> << <<0, 1>>, <<1, 2>>, <<2, 3>> >>,
     time |-> <<0, 1, 2, 3>>, is_sorted |-> TRUE]

Shared3 ==
    [cls |-> "Data", num_nodes |-> 3,
     edge_index |-> << <<2, 1>>, <<2, 0>>, <<1, 2>>, <<2, 0>> >>,
     time |-> <<1, 2, 0>>, is_sorted |-> FALSE]

Six ==
    [cls |-> "Data", num_nodes |-> 6,
     edge_index |-> << <<0, 1>>, <<0, 2>>, <<1, 3>>, <<2, 3>>, <<3, 4>>, <<3, 5>> >>,
     time |-> <<0, 0, 0, 0, 0, 0>>, is_sorted |-> FALSE]

Hetero2 ==
    [cls |-> "HeteroData", node_types |-> <<"u", "v">>,
     num_nodes |-> << <<"u", 2>>, <<"v", 2>> >>,
     edge_types |-> << <<"u", "to", "v">>, <<"v", "rev", "u">> >>,
     edge_index |-> << << <<"u", "to", "v">>, << <<1, 1>>, <<1, 0>>, <<0, 0>> >> >>,
                       << <<"v", "rev", "u">>, << <<1, 0>>, <<0, 1>> >> >> >>,
     time |-> << <<"u", <<0, 2>> >>, <<"v", <<1, 1>> >> >>,
     is_sorted |-> FALSE]

(* the same typed graph held by a (FeatureStore, GraphStore) pair *)
Custom2 == [Hetero2 EXCEPT !.cls = "custom"]

(* typed graphs over node types a, a_ and relations b, _b: two edge types,
   the first with one edge, the second with none *)
KeyTriplets == {"a", "a_"} \X {"b", "_b"} \X {"a", "a_"}

KeyGraph(et1, et2) ==
    [cls |-> "HeteroData", node_types |-> <<"a", "a_">>,
     num_nodes |-> << <<"a", 1>>, <<"a_", 1>> >>,
     edge_types |-> <<et1, et2>>,
     edge_index |-> << <<et1, << <<0, 0>> >> >>, <<et2, <<>> >> >>,
     time |-> << <<"a", <<0>> >>, <<"a_", <<0>> >> >>,
     is_sorted |-> FALSE]

KeyGraphs ==
    {KeyGraph(p[1], p[2]) : p \in {q \in KeyTriplets \X KeyTriplets : q[1] # q[2]}}

Graphs == {Chain4, Shared3, Hetero2}

Budgets == {-1, 1, 2}

Schedules == UNION {[1..n -> Budgets] : n \in 1..MaxHops}

IsHetero(d) == d.cls # "Data"

(* num_neighbors arguments: a list, or for typed graphs also a dict whose
   later edge types carry a shorter schedule *)
NumNeighborsArgs(d) ==
    IF IsHetero(d)
    THEN [kind : {"list"}, v : Schedules]
         \cup {[kind |-> "dict",
                v |-> [i \in DOMAIN d.edge_types |->
                          <<d.edge_types[i],
                            IF i = 1 THEN s ELSE SubSeq(s, 1, 1)>>]] :
               s \in [1..MaxHops -> Budgets]}
    ELSE [kind : {"list"}, v : Schedules]

Reverse(t) == [i \in DOMAIN t |-> t[Len(t) + 1 - i]]

(* data[time_attr] / data.collect(time_attr) *)
TimeOf(d) == d.time

(* the timestamp mapping a caller may pass as node_time / node_time_dict *)
TimeOverride(d) ==
    IF IsHetero(d)
    THEN [i \in DOMAIN d.time |-> <<d.time[i][1], Reverse(d.time[i][2])>>]
    ELSE Reverse(d.time)

-----------------------------------------------------------------------------
(* NeighborSampler.__init__ *)

(* max([0] + [len(v) for v in self.num_neighbors.values()]) *)
MaxLen(d) ==
    LET lens == {0} \cup {Len(d[i][2]) : i \in DOMAIN d}
    IN  CHOOSE m \in lens : \A l \in lens : l <= m

(* _set_num_neighbors_and_num_hops: a list is given to every edge type *)
SetNumNeighbors(num_neighbors, edge_types) ==
    IF num_neighbors.kind = "list"
    THEN [i \in DOMAIN edge_types |-> <<edge_types[i], num_neighbors.v>>]
    ELSE num_neighbors.v

Field(csc, f) == [i \in DOMAIN csc |-> <<csc[i][1], csc[i][2][f]>>]

EmptySampler ==
    [data_cls |-> None, num_neighbors |-> None, replace |-> FALSE,
     directed |-> TRUE, node_time |-> None, colptr |-> None, row |-> None,
     perm |-> None, node_time_dict |-> None, node_types |-> None,
     edge_types |-> None, num_hops |-> None, input_type |-> None,
     to_rel_type |-> None, to_edge_type |-> None, row_dict |-> None,
     colptr_dict |-> None, perm_dict |-> None]

InitData(d, num_neighbors, replace, directed, time_attr) ==
    LET csc == to_csc(d.edge_index, d.num_nodes, d.is_sorted)
    IN  [EmptySampler EXCEPT
            !.data_cls = d.cls,
            !.num_neighbors = num_neighbors.v,
            !.replace = replace,
            !.directed = directed,
            !.node_time = IF IsNone(time_attr) THEN None ELSE Some(TimeOf(d)),
            !.colptr = csc.colptr,
            !.row = csc.row,
            !.perm = csc.perm]

(* the HeteroData branch and the (FeatureStore, GraphStore) branch: both
   collect the time attribute per node type, take the metadata, set
   num_neighbors / num_hops, and key the CSC stores and the schedules by the
   joined edge-type string *)
InitHetero(d, num_neighbors, replace, directed, input_type, time_attr) ==
    LET csc == to_hetero_csc(d)
        to_rel_type == ToRelType(d.edge_types)
        nn == SetNumNeighbors(num_neighbors, d.edge_types)
    IN  [EmptySampler EXCEPT
            !.data_cls = d.cls,
            !.replace = replace,
            !.directed = directed,
            !.node_time_dict = IF IsNone(time_attr) THEN None ELSE Some(TimeOf(d)),
            !.node_types = d.node_types,
            !.edge_types = d.edge_types,
            !.num_hops = MaxLen(nn),
            !.input_type = input_type,
            !.to_rel_type = to_rel_type,
            !.to_edge_type = ToEdgeType(d.edge_types),
            !.row_dict = remap_keys(Field(csc, "row"), to_rel_type),
            !.colptr_dict = remap_keys(Field(csc, "colptr"), to_rel_type),
            !.perm_dict = remap_keys(Field(csc, "perm"), to_rel_type),
            !.num_neighbors = remap_keys(nn, to_rel_type)]

NewSampler(d, num_neighbors, replace, directed, input_type, time_attr) ==
    IF d.cls = "Data"
    THEN InitData(d, num_neighbors, replace, directed, time_attr)
    ELSE InitHetero(d, num_neighbors, replace, directed, input_type, time_attr)

-----------------------------------------------------------------------------
(* sample(): the arguments each branch hands to its native operator *)

(* kwargs.get(key, default) *)
KwGet(kw, key, default) == IF DictHas(kw, key) THEN Some(DictGet(kw, key)) ELSE default

(* torch.ops.pyg.hetero_neighbor_sample_cpu(...) *)
PygHeteroArgs(s, idx, kw) ==
    [fn |-> "pyg.hetero_neighbor_sample_cpu",
     node_types |-> s.node_types,
     edge_types |-> s.edge_types,
     colptr_dict |-> s.colptr_dict,
     row_dict |-> s.row_dict,
     seed_dict |-> << <<s.input_type, idx>> >>,
     num_neighbors |-> s.num_neighbors,
     node_time_dict |-> KwGet(kw, "node_time_dict", s.node_time_dict),
     csc |-> TRUE,
     replace |-> s.replace,
     directed |-> s.directed,
     disjoint |-> ~IsNone(s.node_time_dict),
     return_edge_id |-> TRUE]

(* SparseHeteroArgs with the two trailing flags in the wrong order *)
SparseHeteroArgsFlagsSwapped(s, idx, kw) ==
    [fn |-> "torch_sparse.hetero_neighbor_sample",
     node_types |-> s.node_types,
     edge_types |-> s.edge_types,
     colptr_dict |-> s.colptr_dict,
     row_dict |-> s.row_dict,
     seed_dict |-> << <<s.input_type, idx>> >>,
     num_neighbors |-> s.num_neighbors,
     num_hops |-> s.num_hops,
     replace |-> s.directed,
     directed |-> s.replace]

(* torch.ops.torch_sparse.hetero_neighbor_sample(...) *)
SparseHeteroArgs(s, idx, kw) ==
    [fn |-> "torch_sparse.hetero_neighbor_sample",
     node_types |-> s.node_types,
     edge_types |-> s.edge_types,
     colptr_dict |-> s.colptr_dict,
     row_dict |-> s.row_dict,
     seed_dict |-> << <<s.input_type, idx>> >>,
     num_neighbors |-> s.num_neighbors,
     num_hops |-> s.num_hops,
     replace |-> s.replace,
     directed |-> s.directed]

(* torch.ops.torch_sparse.hetero_temporal_neighbor_sample(...) *)
SparseHeteroTemporalArgs(s, idx, kw) ==
    [fn |-> "torch_sparse.hetero_temporal_neighbor_sample",
     node_types |-> s.node_types,
     edge_types |-> s.edge_types,
     colptr_dict |-> s.colptr_dict,
     row_dict |-> s.row_dict,
     seed_dict |-> << <<s.input_type, idx>> >>,
     num_neighbors |-> s.num_neighbors,
     node_time_dict |-> KwGet(kw, "node_time_dict", s.node_time_dict),
     num_hops |-> s.num_hops,
     replace |-> s.replace,
     directed |-> s.directed]

(* PygArgs with replace and directed in the wrong order *)
PygArgsFlagsSwapped(s, idx, kw) ==
    [fn |-> "pyg.neighbor_sample",
     colptr |-> s.colptr,
     row |-> s.row,
     seed |-> idx,
     num_neighbors |-> s.num_neighbors,
     node_time |-> KwGet(kw, "node_time", s.node_time),
     csc |-> TRUE,
     replace |-> s.directed,
     directed |-> s.replace,
     disjoint |-> ~IsNone(s.node_time),
     return_edge_id |-> TRUE]

(* PygArgs passing the stored mapping instead of kwargs.get('node_time', ...) *)
PygArgsStoredTime(s, idx, kw) ==
    [fn |-> "pyg.neighbor_sample",
     colptr |-> s.colptr,
     row |-> s.row,
     seed |-> idx,
     num_neighbors |-> s.num_neighbors,
     node_time |-> s.node_time,
     csc |-> TRUE,
     replace |-> s.replace,
     directed |-> s.directed,
     disjoint |-> ~IsNone(s.node_time),
     return_edge_id |-> TRUE]

(* torch.ops.pyg.neighbor_sample(...) *)
PygArgs(s, idx, kw) ==
    [fn |-> "pyg.neighbor_sample",
     colptr |-> s.colptr,
     row |-> s.row,
     seed |-> idx,
     num_neighbors |-> s.num_neighbors,
     node_time |-> KwGet(kw, "node_time", s.node_time),
     csc |-> TRUE,
     replace |-> s.replace,
     directed |-> s.directed,
     disjoint |-> ~IsNone(s.node_time),
     return_edge_id |-> TRUE]

(* SparseArgs with the two trailing flags in the wrong order *)
SparseArgsFlagsSwapped(s, idx, kw) ==
    [fn |-> "torch_sparse.neighbor_sample",
     colptr |-> s.colptr,
     row |-> s.row,
     seed |-> idx,
     num_neighbors |-> s.num_neighbors,
     replace |-> s.directed,
     directed |-> s.replace]

(* torch.ops.torch_sparse.neighbor_sample(...) *)
SparseArgs(s, idx, kw) ==
    [fn |-> "torch_sparse.neighbor_sample",
     colptr |-> s.colptr,
     row |-> s.row,
     seed |-> idx,
     num_neighbors |-> s.num_neighbors,
     replace |-> s.replace,
     directed |-> s.directed]

-----------------------------------------------------------------------------
(* The native operators: what they read from their arguments *)

OpIsHetero(a) ==
    a.fn \in {"pyg.hetero_neighbor_sample_cpu", "torch_sparse.hetero_neighbor_sample",
              "torch_sparse.hetero_temporal_neighbor_sample"}

OpIsPyg(a) == a.fn \in {"pyg.hetero_neighbor_sample_cpu", "pyg.neighbor_sample"}

(* the one implicit node / edge type of a homogeneous graph *)
Homo == "_"

OpEdgeTypes(a) ==
    IF OpIsHetero(a)
    THEN [i \in DOMAIN a.edge_types |->
             [rel |-> JoinKey(a.edge_types[i]), src |-> a.edge_types[i][1],
              dst |-> a.edge_types[i][3]]]
    ELSE << [rel |-> Homo, src |-> Homo, dst |-> Homo] >>

OpNodeTypes(a) == IF OpIsHetero(a) THEN a.node_types ELSE <<Homo>>

OpColptr(a, rel) == IF OpIsHetero(a) THEN DictGet(a.colptr_dict, rel) ELSE a.colptr

OpRow(a, rel) == IF OpIsHetero(a) THEN DictGet(a.row_dict, rel) ELSE a.row

OpSchedule(a, rel) ==
    IF OpIsHetero(a) THEN DictGet(a.num_neighbors, rel) ELSE a.num_neighbors

OpNumHops(a) ==
    IF a.fn \in {"torch_sparse.hetero_neighbor_sample",
                 "torch_sparse.hetero_temporal_neighbor_sample"}
    THEN a.num_hops
    ELSE IF OpIsHetero(a) THEN MaxLen(a.num_neighbors) ELSE Len(a.num_neighbors)

(* the timestamp mapping the operator was given, None if it takes or got none *)
OpNodeTime(a) ==
    IF a.fn = "pyg.neighbor_sample" THEN a.node_time
    ELSE IF a.fn \in {"pyg.hetero_neighbor_sample_cpu",
                      "torch_sparse.hetero_temporal_neighbor_sample"}
         THEN a.node_time_dict
         ELSE None

OpDisjoint(a) == OpIsPyg(a) /\ a.disjoint

(* seeds as typed nodes, in caller order *)
OpSeeds(a) ==
    IF OpIsHetero(a)
    THEN Flatten([i \in DOMAIN a.seed_dict |->
                     [j \in DOMAIN a.seed_dict[i][2] |->
                         [t |-> a.seed_dict[i][1], n |-> a.seed_dict[i][2][j]]]])
    ELSE [j \in DOMAIN a.seed |-> [t |-> Homo, n |-> a.seed[j]]]

(* timestamp of node n of type t under mapping tm *)
TimeAt(hetero, tm, t, n) == IF hetero THEN At(DictGet(tm, t), n) ELSE At(tm, n)

(* budget of edge type rel at hop h; a schedule shorter than h gives 0 *)
Budget(a, rel, h) ==
    LET sched == OpSchedule(a, rel)
    IN  IF h <= Len(sched) THEN sched[h] ELSE 0

-----------------------------------------------------------------------------
(* The native operators: frontier expansion (design, 4.3 and 4.4).
   State of one run:
     samples  the visited nodes in discovery order, each with its type t, its
              id n, the hop that discovered it and the index of the seed it
              traces back to (root)
     edges    the sampled edges in sampling order: CSC position p of edge type
              rel, its endpoints s -> d and the expanded node own (indices
              into samples), and the hop
     hop, e, i  the loop position: hop, edge type, active node
     sel      the selection made by the last expansion step *)

ActiveFor(st, et) ==
    SortedSeq({j \in DOMAIN st.samples :
                  /\ st.samples[j].hop = st.hop - 1
                  /\ \/ st.samples[j].t = et.dst
                     \/ ~st.a.directed /\ st.samples[j].t = et.src})

RECURSIVE Normalize(_)
Normalize(st) ==
    IF st.hop > OpNumHops(st.a) THEN [st EXCEPT !.done = TRUE]
    ELSE IF st.e > Len(OpEdgeTypes(st.a))
    THEN IF \E j \in DOMAIN st.samples : st.samples[j].hop = st.hop
         THEN Normalize([st EXCEPT !.hop = st.hop + 1, !.e = 1, !.i = 1])
         ELSE [st EXCEPT !.done = TRUE]
    ELSE IF st.i > Len(ActiveFor(st, OpEdgeTypes(st.a)[st.e]))
    THEN Normalize([st EXCEPT !.e = st.e + 1, !.i = 1])
    ELSE st

OpStart(a) ==
    Normalize([a |-> a,
               samples |-> [j \in DOMAIN OpSeeds(a) |->
                               [t |-> OpSeeds(a)[j].t, n |-> OpSeeds(a)[j].n,
                                hop |-> 0, root |-> j - 1]],
               edges |-> <<>>, hop |-> 1, e |-> 1, i |-> 1,
               sel |-> None, done |-> FALSE])

(* is the edge at position p an in-edge of node x for edge type et *)
IsInEdge(a, et, x, p) == x.t = et.dst /\ CscDst(OpColptr(a, et.rel), p) = x.n

(* the other endpoint of the edge at position p, seen from node x *)
Neighbor(a, et, x, p) ==
    IF IsInEdge(a, et, x, p)
    THEN [t |-> et.src, n |-> At(OpRow(a, et.rel), p)]
    ELSE [t |-> et.dst, n |-> CscDst(OpColptr(a, et.rel), p)]

(* the neighbor range of x, plus its successor edges when not directed,
   filtered to neighbors whose timestamp is <= x's under a time constraint *)
Candidates(a, et, x) ==
    LET row == OpRow(a, et.rel)
        tm  == OpNodeTime(a)
    IN  {p \in 0..(Len(row) - 1) :
            /\ \/ IsInEdge(a, et, x, p)
               \/ ~a.directed /\ x.t = et.src /\ At(row, p) = x.n
            /\ \/ IsNone(tm)
               \/ TimeAt(OpIsHetero(a), Val(tm), Neighbor(a, et, x, p).t,
                         Neighbor(a, et, x, p).n)
                    <= TimeAt(OpIsHetero(a), Val(tm), x.t, x.n)}

(* the selections the budget / replacement policy allows *)
Selections(C, k, replace) ==
    IF k < 0 THEN {SortedSeq(C)}
    ELSE IF replace THEN (IF C = {} THEN {<<>>} ELSE [1..k -> C])
    ELSE IF Cardinality(C) <= k THEN {SortedSeq(C)}
    ELSE {sq \in [1..k -> C] : IsInjective(sq)}

SampleIdx(samples, x) ==
    IF \E j \in DOMAIN samples : samples[j].t = x.t /\ samples[j].n = x.n
    THEN CHOOSE j \in DOMAIN samples : samples[j].t = x.t /\ samples[j].n = x.n
    ELSE 0

(* step 3: visit the neighbor if new, record the edge unless this hop already
   recorded the same (src, dst) pair for this edge type *)
AddPick(st, own, et, p) ==
    LET x    == st.samples[own]
        y    == Neighbor(st.a, et, x, p)
        old  == SampleIdx(st.samples, y)
        smp  == IF old = 0
                THEN Append(st.samples, [t |-> y.t, n |-> y.n, hop |-> st.hop,
                                         root |-> x.root])
                ELSE st.samples
        nbr  == IF old = 0 THEN Len(smp) ELSE old
        isIn == IsInEdge(st.a, et, x, p)
        rec  == [rel |-> et.rel, s |-> IF isIn THEN nbr ELSE own,
                 d |-> IF isIn THEN own ELSE nbr, p |-> p, hop |-> st.hop,
                 own |-> own]
        dup  == \E k \in DOMAIN st.edges :
                    /\ st.edges[k].rel = rec.rel /\ st.edges[k].hop = rec.hop
                    /\ st.edges[k].s = rec.s /\ st.edges[k].d = rec.d
    IN  [st EXCEPT !.samples = smp,
                   !.edges = IF dup THEN st.edges ELSE Append(st.edges, rec)]

RECURSIVE ApplyPicks(_, _, _, _)
ApplyPicks(st, own, et, picks) ==
    IF picks = <<>> THEN st
    ELSE ApplyPicks(AddPick(st, own, et, Head(picks)), own, et, Tail(picks))

(* one expansion step: the active node at the loop position, one edge type *)
Expand(st, picks) ==
    LET et  == OpEdgeTypes(st.a)[st.e]
        own == ActiveFor(st, et)[st.i]
        nxt == ApplyPicks(st, own, et, picks)
    IN  Normalize([nxt EXCEPT
            !.i = st.i + 1,
            !.sel = Some([own |-> own, rel |-> et.rel, hop |-> st.hop,
                          k |-> Budget(st.a, et.rel, st.hop),
                          cands |-> Candidates(st.a, et, st.samples[own]),
                          picks |-> picks])])

ExpandChoices(st) ==
    LET et  == OpEdgeTypes(st.a)[st.e]
        own == ActiveFor(st, et)[st.i]
    IN  Selections(Candidates(st.a, et, st.samples[own]),
                   Budget(st.a, et.rel, st.hop), st.a.replace)

-----------------------------------------------------------------------------
(* The native operators: output assembly (design, 4.5) *)

(* position of sample j among the samples of its type *)
Local(samples, j) ==
    Cardinality({i \in 1..(j - 1) : samples[i].t = samples[j].t})

NodeList(st, t) ==
    LET idx == SortedSeq({j \in DOMAIN st.samples : st.samples[j].t = t})
    IN  [k \in DOMAIN idx |->
            IF OpDisjoint(st.a)
            THEN <<st.samples[idx[k]].root, st.samples[idx[k]].n>>
            ELSE st.samples[idx[k]].n]

EdgeList(st, rel) ==
    LET es == SelectSeq(st.edges, LAMBDA x : x.rel = rel)
    IN  [k \in DOMAIN es |->
            [row |-> Local(st.samples, es[k].s), col |-> Local(st.samples, es[k].d),
             edge |-> es[k].p]]

Column(list, f) == [k \in DOMAIN list |-> list[k][f]]

RECURSIVE EdgeDict(_, _, _)
EdgeDict(st, ets, f) ==
    IF ets = <<>> THEN <<>>
    ELSE LET n == Len(ets)
         IN  DictSet(EdgeDict(st, SubSeq(ets, 1, n - 1), f), ets[n].rel,
                     Column(EdgeList(st, ets[n].rel), f))

(* the tuple the operator returns: pyg-lib gives (row, col, node, edge),
   torch-sparse gives (node, row, col, edge) *)
OpResult(st) ==
    LET a    == st.a
        node == IF OpIsHetero(a)
                THEN [i \in DOMAIN a.node_types |->
                         <<a.node_types[i], NodeList(st, a.node_types[i])>>]
                ELSE NodeList(st, Homo)
        col(f) == IF OpIsHetero(a)
                  THEN EdgeDict(st, OpEdgeTypes(a), f)
                  ELSE Column(EdgeList(st, Homo), f)
    IN  IF OpIsPyg(a)
        THEN <<col("row"), col("col"), node, col("edge")>>
        ELSE <<node, col("row"), col("col"), col("edge")>>

-----------------------------------------------------------------------------
(* NeighborSampler.sample *)

Raise(exc) == [raise |-> Some(exc), args |-> None]

Call(args) == [raise |-> None, args |-> Some(args)]

(* the dispatch on the data class and the backend: the operator call made,
   or the exception raised before any operator runs *)
SampleDispatch(s, pyg, has_temporal_op, idx, kw) ==
    IF s.data_cls = "custom" \/ s.data_cls = "HeteroData"
    THEN IF pyg THEN Call(PygHeteroArgs(s, idx, kw))
         ELSE IF IsNone(s.node_time_dict) THEN Call(SparseHeteroArgs(s, idx, kw))
         ELSE IF ~has_temporal_op THEN Raise("RuntimeError")
         ELSE Call(SparseHeteroTemporalArgs(s, idx, kw))
    ELSE IF s.data_cls = "Data"
    THEN IF pyg THEN Call(PygArgs(s, idx, kw))
         ELSE IF ~IsNone(s.node_time) THEN Raise("ValueError")
         ELSE Call(SparseArgs(s, idx, kw))
    ELSE Raise("TypeError")

(* Unpack taking pyg-lib's row and col in the wrong order *)
UnpackRowColSwapped(pyg, res) ==
    IF pyg
    THEN [row |-> res[2], col |-> res[1], node |-> res[3], edge |-> res[4],
          batch |-> None]
    ELSE [node |-> res[1], row |-> res[2], col |-> res[3], edge |-> res[4],
          batch |-> None]

(* row, col, node, edge, batch = out + (None, )
   node, row, col, edge, batch = out + (None, ) *)
Unpack(pyg, res) ==
    IF pyg
    THEN [row |-> res[1], col |-> res[2], node |-> res[3], edge |-> res[4],
          batch |-> None]
    ELSE [node |-> res[1], row |-> res[2], col |-> res[3], edge |-> res[4],
          batch |-> None]

(* SplitDisjoint unpacking the transposed tensor as node, batch *)
SplitDisjointSwapped(node) ==
    [batch |-> [i \in DOMAIN node |-> node[i][2]],
     node  |-> [i \in DOMAIN node |-> node[i][1]]]

(* batch, node = node.t().contiguous() *)
SplitDisjoint(node) ==
    [batch |-> [i \in DOMAIN node |-> node[i][1]],
     node  |-> [i \in DOMAIN node |-> node[i][2]]]

(* the same per node type: batch = v[0], node = v[1] of the transposed v *)
SplitDisjointDict(node) ==
    [batch |-> [i \in DOMAIN node |-> <<node[i][1], SplitDisjoint(node[i][2]).batch>>],
     node  |-> [i \in DOMAIN node |-> <<node[i][1], SplitDisjoint(node[i][2]).node>>]]

(* index.numel() *)
Numel(idx) == Len(idx)

HeteroReturn(s, pyg, idx, res) ==
    LET u        == Unpack(pyg, res)
        disjoint == pyg /\ ~IsNone(s.node_time_dict)
    IN  [cls |-> "HeteroSamplerOutput",
         node |-> IF disjoint THEN SplitDisjointDict(u.node).node ELSE u.node,
         row |-> remap_keys(u.row, s.to_edge_type),
         col |-> remap_keys(u.col, s.to_edge_type),
         edge |-> remap_keys(u.edge, s.to_edge_type),
         batch |-> IF disjoint THEN Some(SplitDisjointDict(u.node).batch) ELSE u.batch,
         metadata |-> Numel(idx)]

(* DataReturn reporting the number of sampled nodes as the seed count *)
DataReturnCountsNodes(s, pyg, idx, res) ==
    LET u        == Unpack(pyg, res)
        disjoint == pyg /\ ~IsNone(s.node_time)
    IN  [cls |-> "SamplerOutput",
         node |-> IF disjoint THEN SplitDisjoint(u.node).node ELSE u.node,
         row |-> u.row,
         col |-> u.col,
         edge |-> u.edge,
         batch |-> IF disjoint THEN Some(SplitDisjoint(u.node).batch) ELSE u.batch,
         metadata |-> Len(u.node)]

DataReturn(s, pyg, idx, res) ==
    LET u        == Unpack(pyg, res)
        disjoint == pyg /\ ~IsNone(s.node_time)
    IN  [cls |-> "SamplerOutput",
         node |-> IF disjoint THEN SplitDisjoint(u.node).node ELSE u.node,
         row |-> u.row,
         col |-> u.col,
         edge |-> u.edge,
         batch |-> IF disjoint THEN Some(SplitDisjoint(u.node).batch) ELSE u.batch,
         metadata |-> Numel(idx)]

SampleReturn(s, pyg, idx, res) ==
    IF s.data_cls = "Data" THEN DataReturn(s, pyg, idx, res)
    ELSE HeteroReturn(s, pyg, idx, res)

-----------------------------------------------------------------------------
(* The state machine *)

NoOp ==
    [a |-> [fn |-> "none"], samples |-> <<>>, edges |-> <<>>, hop |-> 0,
     e |-> 0, i |-> 0, sel |-> None, done |-> TRUE]

NoOut == [cls |-> "None"]

(* the seed tensors a caller may pass: distinct nodes of the input type *)
SeedArgs(d, input_type) ==
    LET n == IF IsHetero(d) THEN DictGet(d.num_nodes, Val(input_type))
             ELSE d.num_nodes
    IN  {sq \in UNION {[1..m -> 0..(n - 1)] : m \in 1..MaxSeeds} : IsInjective(sq)}

(* the keyword arguments a caller may pass: none, or a timestamp override *)
KwArgs(d) ==
    {<<>>,
     << <<IF IsHetero(d) THEN "node_time_dict" ELSE "node_time",
          TimeOverride(d)>> >>}

InputTypes(d) ==
    IF IsHetero(d) THEN {Some(t) : t \in Range(d.node_types)} ELSE {None}

Construct(d, num_neighbors, replace, directed, input_type, time_attr) ==
    /\ data = d
    /\ self = NewSampler(d, num_neighbors, replace, directed,
                         IF IsNone(input_type) THEN None ELSE Val(input_type),
                         time_attr)
    /\ constructed = self
    /\ pc = "ready"
    /\ index = None
    /\ kwargs = <<>>
    /\ op = NoOp
    /\ out = NoOut

(* the backend: with pyg-lib or with torch-sparse; an old torch-sparse lacks
   the temporal operator, which only typed graphs ever look up *)
Backend(d) ==
    /\ WITH_PYG_LIB \in BOOLEAN
    /\ HAS_TEMPORAL_OP \in IF IsHetero(d) /\ ~WITH_PYG_LIB THEN BOOLEAN ELSE {TRUE}

Init ==
    \E d \in Graphs, replace \in BOOLEAN, directed \in BOOLEAN,
       time_attr \in {None, Some("time")} :
        \E num_neighbors \in NumNeighborsArgs(d), input_type \in InputTypes(d) :
            /\ Backend(d)
            /\ Construct(d, num_neighbors, replace, directed, input_type, time_attr)

(* sample(index, **kwargs) up to the operator call or the raise *)
SampleCall ==
    /\ pc = "ready"
    /\ \E idx \in SeedArgs(data, IF IsHetero(data) THEN Some(self.input_type) ELSE None),
          kw \in KwArgs(data) :
        LET c == SampleDispatch(self, WITH_PYG_LIB, HAS_TEMPORAL_OP, idx, kw)
        IN  /\ index' = Some(idx)
            /\ kwargs' = kw
            /\ IF IsNone(c.raise)
               THEN /\ op' = OpStart(Val(c.args))
                    /\ pc' = "native"
                    /\ out' = NoOut
               ELSE /\ op' = NoOp
                    /\ pc' = "ready"
                    /\ out' = [cls |-> Val(c.raise)]
    /\ UNCHANGED <<WITH_PYG_LIB, HAS_TEMPORAL_OP, data, constructed, self>>

(* the first sample() call on the sampler *)
Sample == IsNone(index) /\ SampleCall

(* a later sample() call on the same sampler *)
SampleAgain == ~IsNone(index) /\ SampleCall

(* the operator expands one active node for one edge type *)
ExpandNode ==
    /\ pc = "native"
    /\ ~op.done
    /\ \E picks \in ExpandChoices(op) : op' = Expand(op, picks)
    /\ UNCHANGED <<WITH_PYG_LIB, HAS_TEMPORAL_OP, data, constructed, self, pc,
                   index, kwargs, out>>

(* the operator returns; sample() unpacks and returns the sampler output *)
Return ==
    /\ pc = "native"
    /\ op.done
    /\ out' = SampleReturn(self, WITH_PYG_LIB, Val(index), OpResult(op))
    /\ pc' = "ready"
    /\ UNCHANGED <<WITH_PYG_LIB, HAS_TEMPORAL_OP, data, constructed, self, index,
                   kwargs, op>>

(* the end-to-end scenario: the 6-node graph, schedule [2, 1], no replacement *)
InitE2E ==
    \E directed \in BOOLEAN :
        /\ Backend(Six)
        /\ Construct(Six, [kind |-> "list", v |-> <<2, 1>>], FALSE, directed,
                     None, None)

(* samplers that are called again and again *)
InitCalls ==
    \E d \in {Chain4, Hetero2, Custom2}, replace \in BOOLEAN,
       time_attr \in {None, Some("time")} :
        \E num_neighbors \in [kind : {"list"}, v : [1..1 -> Budgets]],
           input_type \in InputTypes(d) :
            /\ Backend(d)
            /\ Construct(d, num_neighbors, replace, TRUE, input_type, time_attr)

(* typed samplers over every pair of edge types *)
InitKeys ==
    \E d \in KeyGraphs, time_attr \in {None, Some("time")} :
        /\ Backend(d)
        /\ Construct(d, [kind |-> "list", v |-> <<1>>], FALSE, TRUE,
                     Some(d.edge_types[1][3]), time_attr)

Next == Sample \/ ExpandNode \/ Return

Spec == Init /\ [][Next]_vars

SpecE2E == InitE2E /\ [][Next]_vars

NextCalls == Sample \/ SampleAgain \/ ExpandNode \/ Return

SpecCalls == InitCalls /\ [][NextCalls]_vars

SpecKeys == InitKeys /\ [][Next]_vars

-----------------------------------------------------------------------------
(* Vocabulary of the properties *)

Called == ~IsNone(index)

Returned == pc = "ready" /\ out.cls \in {"SamplerOutput", "HeteroSamplerOutput"}

Raised == pc = "ready" /\ out.cls \in {"ValueError", "RuntimeError", "TypeError"}

HomoCall == self.data_cls = "Data"

(* the timestamp mapping stored at construction *)
StoredTime == IF HomoCall THEN self.node_time ELSE self.node_time_dict

(* the timestamp mapping of the call: the override if one was passed,
   otherwise the stored mapping *)
CallTime ==
    IF kwargs = <<>> THEN StoredTime ELSE Some(kwargs[1][2])

(* the expanded node and the sampled neighbor of a sampled edge *)
OwnerOf(r) == r.own

NbrOf(r) == IF r.own = r.d THEN r.s ELSE r.d

CallTimeOf(j) ==
    TimeAt(~HomoCall, Val(CallTime), op.samples[j].t, op.samples[j].n)

(* the seed (as a sample index) that sample j traces back to *)
SeedOf(j) == op.samples[j].root + 1

(* the input edge list, node lists and CSC permutation behind output key et *)
InputEdges(et) == IF HomoCall THEN data.edge_index ELSE DictGet(data.edge_index, et)

PermOf(et) == IF HomoCall THEN self.perm ELSE DictGet(self.perm_dict, JoinKey(et))

OutKeys == IF HomoCall THEN {Homo} ELSE Range(DictKeys(out.edge))

OutList(f, et) == IF HomoCall THEN out[f] ELSE DictGet(out[f], et)

OutNodes(t) == IF HomoCall THEN out.node ELSE DictGet(out.node, t)

SrcType(et) == IF HomoCall THEN Homo ELSE et[1]

DstType(et) == IF HomoCall THEN Homo ELSE et[3]

InRange(i, list) == i \in 0..(Len(list) - 1)

-----------------------------------------------------------------------------
(* C1: every output edge is a real input edge: for each output position i,
   the node ids behind the local indices row[i] and col[i] are the endpoints
   of the input edge that perm gives for edge[i]. *)
C1_OutputEdgesAreInputEdges ==
    Returned =>
        \A et \in OutKeys :
            /\ Len(OutList("row", et)) = Len(OutList("edge", et))
            /\ Len(OutList("col", et)) = Len(OutList("edge", et))
            /\ \A i \in DOMAIN OutList("edge", et) :
                /\ InRange(OutList("edge", et)[i], PermOf(et))
                /\ InRange(OutList("row", et)[i], OutNodes(SrcType(et)))
                /\ InRange(OutList("col", et)[i], OutNodes(DstType(et)))
                /\ InputEdges(et)[At(PermOf(et), OutList("edge", et)[i]) + 1]
                     = <<At(OutNodes(SrcType(et)), OutList("row", et)[i]),
                         At(OutNodes(DstType(et)), OutList("col", et)[i])>>

(* a call returned an edge whose CSC position differs from its input position *)
C1_Witness ==
    /\ Returned
    /\ \E et \in OutKeys : \E i \in DOMAIN OutList("edge", et) :
           At(PermOf(et), OutList("edge", et)[i]) # OutList("edge", et)[i]

-----------------------------------------------------------------------------
(* C2: temporal causality: while the operator runs under a time constraint,
   every sampled neighbor's timestamp (in the call's timestamp mapping) is at
   most that of the node it was sampled for, and at most that of the seed
   that node traces back to; on the 4-node chain with increasing timestamps
   this holds from every seed, the latest node included. *)
C2_TemporalCausality ==
    ~IsNone(OpNodeTime(op.a)) =>
        \A k \in DOMAIN op.edges :
            /\ CallTimeOf(NbrOf(op.edges[k])) <= CallTimeOf(OwnerOf(op.edges[k]))
            /\ CallTimeOf(NbrOf(op.edges[k])) <= CallTimeOf(SeedOf(OwnerOf(op.edges[k])))

(* the chain, sampled from its latest node under the time constraint, gave
   two hops of edges *)
C2_Witness ==
    /\ Returned
    /\ data = Chain4
    /\ ~IsNone(OpNodeTime(op.a))
    /\ Val(index) = <<3>>
    /\ Len(op.edges) = 2

-----------------------------------------------------------------------------
(* the edges recorded for the expansion step sel *)
StepEdges(sel) ==
    {k \in DOMAIN op.edges :
        /\ op.edges[k].own = sel.own /\ op.edges[k].hop = sel.hop
        /\ op.edges[k].rel = sel.rel}

(* C3: without replacement and with a budget k >= 0, an expansion step
   selects exactly min(k, |candidates|) candidates, all distinct, and the
   edges it records hold no (source, destination) pair twice; fewer
   candidates than k means all are taken. *)
C3_WithoutReplacement ==
    (~IsNone(op.sel) /\ ~self.replace /\ Val(op.sel).k >= 0) =>
        LET sel == Val(op.sel)
        IN  /\ Len(sel.picks) = Min(sel.k, Cardinality(sel.cands))
            /\ IsInjective(sel.picks)
            /\ Range(sel.picks) \subseteq sel.cands
            /\ \A i, j \in StepEdges(sel) :
                   (op.edges[i].s = op.edges[j].s /\ op.edges[i].d = op.edges[j].d)
                       => i = j

(* a step with more candidates than budget, and a step with fewer *)
C3_Witness ==
    /\ ~IsNone(op.sel)
    /\ ~self.replace
    /\ Val(op.sel).k = 1
    /\ Cardinality(Val(op.sel).cands) = 2
    /\ Len(Val(op.sel).picks) = 1

-----------------------------------------------------------------------------
(* C4 as stated: with replacement, a step with budget k > 0 selects exactly
   k candidates, also when the node has no candidates. *)
C4_WithReplacementExactlyK ==
    (~IsNone(op.sel) /\ self.replace /\ Val(op.sel).k > 0) =>
        Len(Val(op.sel).picks) = Val(op.sel).k

(* C4 amended: with replacement, a step with budget k > 0 selects exactly k
   candidates (repeats allowed) when the node has at least one candidate,
   and none when it has no candidate. *)
C4_WithReplacement ==
    (~IsNone(op.sel) /\ self.replace /\ Val(op.sel).k > 0) =>
        LET sel == Val(op.sel)
        IN  /\ Len(sel.picks) = IF sel.cands = {} THEN 0 ELSE sel.k
            /\ Range(sel.picks) \subseteq sel.cands

(* a step drew two picks from a single candidate *)
C4_Witness ==
    /\ ~IsNone(op.sel)
    /\ self.replace
    /\ Val(op.sel).k = 2
    /\ Cardinality(Val(op.sel).cands) = 1
    /\ Len(Val(op.sel).picks) = 2

-----------------------------------------------------------------------------
(* the batch entry the output holds for sample j *)
BatchOf(j) ==
    IF HomoCall THEN Val(out.batch)[j]
    ELSE DictGet(Val(out.batch), op.samples[j].t)[Local(op.samples, j) + 1]

HopOf(j) == op.samples[j].hop

BatchShape ==
    IF HomoCall THEN Len(Val(out.batch)) = Len(out.node)
    ELSE \A i \in DOMAIN out.node :
             /\ DictHas(Val(out.batch), out.node[i][1])
             /\ Len(DictGet(Val(out.batch), out.node[i][1])) = Len(out.node[i][2])

(* every node carries the index of the seed that discovered it: a seed
   carries its own index, any other node the index of the node whose
   expansion first sampled it; no node id is in two batch groups *)
BatchIsDiscoverer ==
    /\ ~IsNone(out.batch)
    /\ BatchShape
    /\ \A j \in DOMAIN op.samples :
        /\ HopOf(j) = 0 => BatchOf(j) = j - 1
        /\ HopOf(j) > 0 =>
              \E k \in DOMAIN op.edges :
                  /\ NbrOf(op.edges[k]) = j
                  /\ HopOf(OwnerOf(op.edges[k])) = HopOf(j) - 1
                  /\ BatchOf(OwnerOf(op.edges[k])) = BatchOf(j)
    /\ \A i, j \in DOMAIN op.samples :
        (op.samples[i].t = op.samples[j].t /\ op.samples[i].n = op.samples[j].n)
            => BatchOf(i) = BatchOf(j)

(* no sampled edge reaches a node from a seed that would have discovered it
   at an earlier hop *)
ShortestHopWins ==
    \A k \in DOMAIN op.edges :
        HopOf(NbrOf(op.edges[k])) <= HopOf(OwnerOf(op.edges[k])) + 1

(* on equal hops the lower seed index wins *)
TieToLowerSeed ==
    \A k \in DOMAIN op.edges :
        HopOf(NbrOf(op.edges[k])) = HopOf(OwnerOf(op.edges[k])) + 1
            => BatchOf(NbrOf(op.edges[k])) <= BatchOf(OwnerOf(op.edges[k]))

RelIndex(rel) ==
    CHOOSE i \in DOMAIN OpEdgeTypes(op.a) : OpEdgeTypes(op.a)[i].rel = rel

(* on equal hops the edge type expanded first wins, and within one edge type
   the lower seed index *)
TieToFirstTypeThenLowerSeed ==
    \A k \in DOMAIN op.edges :
        HopOf(NbrOf(op.edges[k])) = HopOf(OwnerOf(op.edges[k])) + 1
            => \E d \in DOMAIN op.edges :
                   /\ NbrOf(op.edges[d]) = NbrOf(op.edges[k])
                   /\ op.edges[d].hop = op.edges[k].hop
                   /\ BatchOf(OwnerOf(op.edges[d])) = BatchOf(NbrOf(op.edges[k]))
                   /\ \/ RelIndex(op.edges[d].rel) < RelIndex(op.edges[k].rel)
                      \/ /\ op.edges[d].rel = op.edges[k].rel
                         /\ BatchOf(OwnerOf(op.edges[d])) <= BatchOf(OwnerOf(op.edges[k]))

(* C5 as stated: whenever a call sampled under a time constraint, its output
   carries for every node the index of the seed that discovered it, the
   shortest hop path winning and equal hops going to the lower seed index. *)
C5_BatchWheneverTemporal ==
    (Returned /\ ~IsNone(OpNodeTime(op.a))) =>
        (BatchIsDiscoverer /\ ShortestHopWins /\ TieToLowerSeed)

(* C5 amended: on the pyg-lib backend with a sampler constructed with a time
   attribute (the disjoint flag), every sampled node carries the index of the
   seed whose traversal discovered it; among the seeds whose sampled edges
   reach a node, the one reaching it at the earliest hop wins, on equal hops
   the edge type expanded first, and within one edge type (so always on a
   homogeneous graph) the lower seed index; no node id is in two batch
   groups.  In every other configuration the output carries no batch. *)
C5_DisjointBatching ==
    Returned =>
        IF WITH_PYG_LIB /\ ~IsNone(StoredTime)
        THEN /\ BatchIsDiscoverer
             /\ ShortestHopWins
             /\ TieToFirstTypeThenLowerSeed
             /\ HomoCall => TieToLowerSeed
        ELSE IsNone(out.batch)

(* two seeds reached a common neighbor in the same hop: it went to the
   first seed although the second seed's expansion sampled it too *)
C5_Witness ==
    /\ Returned
    /\ ~IsNone(out.batch)
    /\ Len(Val(index)) = 2
    /\ \E k \in DOMAIN op.edges :
        /\ HopOf(NbrOf(op.edges[k])) = 1
        /\ op.samples[OwnerOf(op.edges[k])].root = 1
        /\ op.samples[NbrOf(op.edges[k])].root = 0

-----------------------------------------------------------------------------
(* the ids of the samples of node type t, in discovery order *)
SampleIds(t) ==
    LET idx == SortedSeq({j \in DOMAIN op.samples : op.samples[j].t = t})
    IN  [k \in DOMAIN idx |-> op.samples[idx[k]].n]

NodeKeys == IF HomoCall THEN {Homo} ELSE Range(DictKeys(out.node))

SeedType == IF HomoCall THEN Homo ELSE self.input_type

(* C6: the output node list starts with the seeds in caller order and the
   reported seed count is the number of seeds; the nodes follow in discovery
   order, every node of hop h before every node of hop h+1; row and col are
   indices into the node list. *)
C6_OutputOrdering ==
    Returned =>
        /\ out.metadata = Len(Val(index))
        /\ Len(OutNodes(SeedType)) >= Len(Val(index))
        /\ SubSeq(OutNodes(SeedType), 1, Len(Val(index))) = Val(index)
        /\ \A t \in NodeKeys : OutNodes(t) = SampleIds(t)
        /\ \A i, j \in DOMAIN op.samples : i < j => HopOf(i) <= HopOf(j)
        /\ \A j \in DOMAIN op.samples : HopOf(j) = 0 <=> j <= Len(Val(index))
        /\ \A et \in OutKeys :
            /\ \A i \in DOMAIN OutList("row", et) :
                   InRange(OutList("row", et)[i], OutNodes(SrcType(et)))
            /\ \A i \in DOMAIN OutList("col", et) :
                   InRange(OutList("col", et)[i], OutNodes(DstType(et)))

(* two seeds given in descending order, and nodes of hop 1 and hop 2 *)
C6_Witness ==
    /\ Returned
    /\ Len(Val(index)) = 2
    /\ Val(index)[1] > Val(index)[2]
    /\ \E i, j \in DOMAIN op.samples : HopOf(i) = 1 /\ HopOf(j) = 2

-----------------------------------------------------------------------------
(* temporal sampling is requested by a time attribute at construction or by
   a timestamp mapping passed to the call *)
TemporalRequested == ~IsNone(CallTime)

(* homogeneous graphs have no temporal operator in torch-sparse; typed
   graphs have none in a torch-sparse without it *)
TemporalUnsupported == ~WITH_PYG_LIB /\ (HomoCall \/ ~HAS_TEMPORAL_OP)

(* C7: a call that requests temporal sampling where it is unsupported raises
   before any operator runs; the request is never dropped silently. *)
C7_UnsupportedTemporalRaises ==
    (Called /\ TemporalRequested /\ TemporalUnsupported) =>
        (Raised /\ op = NoOp)

-----------------------------------------------------------------------------
(* the node-id pairs behind the output edges *)
OutputEdgePairs ==
    {<<At(out.node, out.row[i]), At(out.node, out.col[i])>> : i \in DOMAIN out.row}

ScenarioDone == Returned /\ data = Six /\ Val(index) = <<0>>

(* C8 as stated: on the 6-node graph, schedule [2, 1], seed [0], without
   replacement, every outcome holds node 0 and both 1 and 2, has 3 or 4
   nodes, and only edges of the graph. *)
C8_ScenarioAsStated ==
    ScenarioDone =>
        /\ {0, 1, 2} \subseteq Range(out.node)
        /\ Len(out.node) \in {3, 4}
        /\ OutputEdgePairs \subseteq Range(Six.edge_index)

(* C8 amended: in that scenario with the default directed = true, every
   outcome is node 0 alone with no edge, because node 0 has no in-neighbor in
   the destination-compressed layout; every output edge of any call on the
   graph is one of its six edges. *)
C8_Scenario ==
    /\ (ScenarioDone /\ self.directed) =>
           (out.node = <<0>> /\ out.row = <<>> /\ out.col = <<>> /\ out.edge = <<>>)
    /\ (Returned /\ data = Six) =>
           (/\ \A i \in DOMAIN out.row : InRange(out.row[i], out.node)
            /\ \A i \in DOMAIN out.col : InRange(out.col[i], out.node)
            /\ Len(out.row) = Len(out.col)
            /\ OutputEdgePairs \subseteq Range(Six.edge_index))

(* the scenario ran to its end *)
C8_Witness == ScenarioDone /\ self.directed /\ out.metadata = 1

-----------------------------------------------------------------------------
(* C9: no call changes the sampler, and the operator of a call works with
   that call's timestamp mapping: the override if one was passed, otherwise
   the mapping stored at construction. *)
C9_CallsLeaveSamplerAndUseOverride ==
    /\ self = constructed
    /\ pc = "native" => OpNodeTime(op.a) = CallTime

-----------------------------------------------------------------------------
(* the stores as to_hetero_csc gave them, keyed by edge type *)
BuiltStores(f) == Field(to_hetero_csc(data), f)

(* C10: flattening the edge types to strings and back is a bijection: the
   stored dicts map back to the dicts keyed by the original edge types, no
   two edge types share a string, and a returned output is keyed by exactly
   the original edge types. *)
C10_EdgeTypeKeyRoundTrip ==
    ~HomoCall =>
        /\ \A i, j \in DOMAIN self.edge_types :
               JoinKey(self.edge_types[i]) = JoinKey(self.edge_types[j]) => i = j
        /\ remap_keys(self.row_dict, self.to_edge_type) = BuiltStores("row")
        /\ remap_keys(self.colptr_dict, self.to_edge_type) = BuiltStores("colptr")
        /\ remap_keys(self.perm_dict, self.to_edge_type) = BuiltStores("perm")
        /\ Returned =>
               /\ DictKeys(out.row) = self.edge_types
               /\ DictKeys(out.col) = self.edge_types
               /\ DictKeys(out.edge) = self.edge_types

====
